---- MODULE Spec2Model ----
(***************************************************************************)
(* A model of operate/models/apis.py: the backend dispatcher               *)
(* (get_next_action), the model backends (call_gpt_4o, call_claude_37,     *)
(* call_qwen_vl_with_ocr, call_gemini_pro_vision, call_gpt_4o_with_ocr,    *)
(* call_o1_with_ocr, call_gpt_4o_labeled, call_ollama_llava,               *)
(* call_claude_3_with_ocr), their retry and fallback paths, and the        *)
(* response normalisation they share (clean_json, json.loads).             *)
(*                                                                         *)
(* Texts are sequences of tokens.  A model response is a token sequence    *)
(* built from fence markers, prose words, brackets and operation keys; an  *)
(* operation object is written "{" key "}" and decoded by OpTable.  The    *)
(* separating commas of a JSON array are not written.                      *)
(*                                                                         *)
(* A turn is one call of get_next_action.  It is cut into steps at the     *)
(* points where the program waits for the outside world: every model       *)
(* request.  pc names the request the turn is waiting on.                  *)
(***************************************************************************)
EXTENDS Integers, Sequences, FiniteSets, TLC

(***************************************************************************)
(* Bounds of the model.                                                    *)
(***************************************************************************)
\* turns (calls of get_next_action) in a session
MaxTurns == 2
\* self re-invocations of call_gpt_4o / call_ollama_llava inside one turn
MaxDepth == 2

(***************************************************************************)
(* Sequence helpers.                                                       *)
(***************************************************************************)
\* s[a..b], empty when a > b
Slice(s, a, b) == IF a > b THEN <<>> ELSE SubSeq(s, a, b)

Last(s) == s[Len(s)]

Range(s) == {s[i] : i \in 1..Len(s)}

(***************************************************************************)
(* Operations (the records of the wire schema).  A Python dict with        *)
(* optional keys is a record plus the set has of the keys present.         *)
(* Coordinates are fractions in hundredths (50 is 0.5); a text is a        *)
(* sequence of words.                                                      *)
(***************************************************************************)
Op(kind, has, thought) ==
    [operation |-> kind, has |-> has, thought |-> thought, x |-> 0, y |-> 0,
     text |-> <<>>, label |-> "", duration |-> 0, double_click |-> FALSE]

\* thoughts a model writes, as word sequences
ThPress   == <<"press", "enter">>
ThClickOn == <<"click", "on", "the", "button">>
ThDouble  == <<"Double", "click">>
ThDoubleQ == <<"double", "click", "on", "'", "foo", "'">>

\* the keys of the operation objects a model response is built from
ModelOpKeys == {"kWait", "kDone", "kPress", "kClick", "kClickB", "kDbl", "kDblText",
                "kDblBare", "kText", "kTextDocs", "kLabel"}

\* call_claude_37, line 621 and line 624: operation objects written as text
OpKeys == ModelOpKeys \cup {"kTaskComplete", "kContinuing"}

\* the operation an object text stands for
OpTable(k) ==
    CASE k = "kWait"    -> [Op("wait", {"thought", "duration"}, ThPress) EXCEPT !.duration = 2]
      [] k = "kDone"    -> Op("done", {}, <<>>)
      [] k = "kPress"   -> Op("press", {"thought"}, ThPress)
      [] k = "kClick"   -> [Op("click", {"thought", "x", "y"}, ThClickOn)
                               EXCEPT !.x = 50, !.y = 50]
      [] k = "kClickB"  -> [Op("click", {"thought", "x", "y"}, ThClickOn)
                               EXCEPT !.x = 20, !.y = 80]
      [] k = "kDbl"     -> [Op("click", {"thought", "x", "y"}, ThDouble)
                               EXCEPT !.x = 50, !.y = 50]
      [] k = "kDblText" -> [Op("click", {"thought", "text"}, ThDoubleQ)
                               EXCEPT !.text = <<"foo">>]
      [] k = "kDblBare" -> Op("click", {"thought"}, ThDouble)
      [] k = "kText"    -> [Op("click", {"thought", "text"}, ThClickOn)
                               EXCEPT !.text = <<"foo">>]
      [] k = "kTextDocs" -> [Op("click", {"thought", "text"}, ThClickOn)
                               EXCEPT !.text = <<"Docs">>]
      [] k = "kLabel"   -> [Op("click", {"thought", "label"}, ThClickOn)
                               EXCEPT !.label = "~1"]
      [] k = "kTaskComplete" -> Op("done", {"thought"}, <<"Task", "complete">>)
      [] k = "kContinuing"   -> [Op("wait", {"thought", "duration"}, <<"Continuing", "task">>)
                                    EXCEPT !.duration = 1]

IsClick(op) == op.operation = "click"

(***************************************************************************)
(* Tokens of a response text.                                              *)
(***************************************************************************)
\* the code-fence marker (three backquotes)
Fence == "<fence>"
NL    == "\n"
SP    == " "
Whitespace == {NL, SP}
\* the tokens that are one character long
OneChar == {NL, SP, "[", "]", "{", "}", "'"}

\* lower-cased text of a token contains sub (str.lower and the in operator)
TokContains(tok, sub) ==
    CASE sub = "done"     -> tok \in {"Done", "kDone"}
      [] sub = "complete" -> tok \in {"completed", "kTaskComplete"}
      [] sub = "double"   -> tok \in {"double", "Double"}
      [] sub = "click"    -> tok \in {"click", "Click", "clicking"}
      [] OTHER            -> tok = sub

\* str.lower of a word
Lower(tok) ==
    CASE tok = "Click"  -> "click"
      [] tok = "Double" -> "double"
      [] tok = "Done"   -> "done"
      [] tok = "Open"   -> "open"
      [] tok = "Docs"   -> "docs"
      [] tok = "Doc"    -> "doc"
      [] tok = "My"     -> "my"
      [] tok = "Ok"     -> "ok"
      [] OTHER          -> tok

LowerText(s) == [i \in 1..Len(s) |-> Lower(s[i])]

TextContains(s, sub) == \E i \in 1..Len(s) : TokContains(s[i], sub)

\* str.strip
RECURSIVE LStrip(_)
LStrip(s) == IF s # <<>> /\ Head(s) \in Whitespace THEN LStrip(Tail(s)) ELSE s

RECURSIVE RStrip(_)
RStrip(s) ==
    IF s # <<>> /\ Last(s) \in Whitespace THEN RStrip(Slice(s, 1, Len(s) - 1)) ELSE s

Strip(s) == RStrip(LStrip(s))

StartsWith(s, p) == Len(s) >= Len(p) /\ Slice(s, 1, Len(p)) = p
EndsWith(s, p)   == Len(s) >= Len(p) /\ Slice(s, Len(s) - Len(p) + 1, Len(s)) = p

\* index of the first line break of s, 0 when it has none
RECURSIVE FirstNL(_, _)
FirstNL(s, i) == IF i > Len(s) THEN 0 ELSE IF s[i] = NL THEN i ELSE FirstNL(s, i + 1)

\* str.splitlines: a final line break opens no further line
RECURSIVE SplitLines(_)
SplitLines(s) ==
    IF s = <<>> THEN <<>>
    ELSE LET i == FirstNL(s, 1)
         IN  IF i = 0 THEN <<s>>
             ELSE <<Slice(s, 1, i - 1)>> \o SplitLines(Slice(s, i + 1, Len(s)))

\* "\n".join(lines)
RECURSIVE JoinLines(_)
JoinLines(lines) ==
    IF lines = <<>> THEN <<>>
    ELSE IF Len(lines) = 1 THEN Head(lines)
    ELSE Head(lines) \o <<NL>> \o JoinLines(Tail(lines))

\* line 1636: "\n".join(line.strip() for line in content.splitlines())
NormalizeLines(s) ==
    LET lines == SplitLines(s)
    IN  JoinLines([i \in 1..Len(lines) |-> Strip(lines[i])])

\* clean_json
clean_json(content) ==
    LET a == IF StartsWith(content, <<Fence, "json">>)
                 THEN Strip(Slice(content, 3, Len(content)))
             ELSE IF StartsWith(content, <<Fence>>)
                 THEN Strip(Slice(content, 2, Len(content)))
             ELSE content
        b == IF EndsWith(a, <<Fence>>) THEN Strip(Slice(a, 1, Len(a) - 1)) ELSE a
    IN  NormalizeLines(b)

(***************************************************************************)
(* json.loads on a token text.  White space between the JSON tokens is     *)
(* skipped.  The result is [ok, kind, ops]: ok is FALSE for                *)
(* json.JSONDecodeError; kind is "list" for an array of operation objects  *)
(* and "dict" for a single object.                                         *)
(***************************************************************************)
RECURSIVE DropWhitespace(_)
DropWhitespace(s) ==
    IF s = <<>> THEN <<>>
    ELSE (IF Head(s) \in Whitespace THEN <<>> ELSE <<Head(s)>>) \o DropWhitespace(Tail(s))

IsObject(t) == Len(t) = 3 /\ t[1] = "{" /\ t[2] \in OpKeys /\ t[3] = "}"

\* t is a run of operation objects
RECURSIVE IsObjects(_)
IsObjects(t) ==
    \/ t = <<>>
    \/ Len(t) >= 3 /\ IsObject(Slice(t, 1, 3)) /\ IsObjects(Slice(t, 4, Len(t)))

RECURSIVE DecodeObjects(_)
DecodeObjects(t) ==
    IF t = <<>> THEN <<>> ELSE <<OpTable(t[2])>> \o DecodeObjects(Slice(t, 4, Len(t)))

JsonError == [ok |-> FALSE, kind |-> "error", ops |-> <<>>]

json_loads(content) ==
    LET t == DropWhitespace(content)
    IN  IF IsObject(t) THEN [ok |-> TRUE, kind |-> "dict", ops |-> <<OpTable(t[2])>>]
        ELSE IF Len(t) >= 2 /\ t[1] = "[" /\ Last(t) = "]"
                /\ IsObjects(Slice(t, 2, Len(t) - 1))
            THEN [ok |-> TRUE, kind |-> "list",
                  ops |-> DecodeObjects(Slice(t, 2, Len(t) - 1))]
        ELSE JsonError

\* the text of a JSON array of the operation objects keys
RECURSIVE Objects(_)
Objects(keys) ==
    IF keys = <<>> THEN <<>> ELSE <<"{", Head(keys), "}">> \o Objects(Tail(keys))

Arr(keys) == <<"[">> \o Objects(keys) \o <<"]">>

(***************************************************************************)
(* call_claude_37, line 614: re.search(r'(\[.*\]|\{.*\})', content,        *)
(* re.DOTALL).  The match starts at the leftmost opening bracket that has  *)
(* a closing bracket of its kind after it and, .* being greedy, ends at    *)
(* the last such closing bracket.  <<>> stands for no match.               *)
(***************************************************************************)
Closer(open) == IF open = "[" THEN "]" ELSE "}"

LastIndexOf(s, tok) ==
    LET idx == {i \in 1..Len(s) : s[i] = tok}
    IN  IF idx = {} THEN 0 ELSE CHOOSE i \in idx : \A j \in idx : j <= i

JsonBlockSearch(content) ==
    LET starts == {i \in 1..Len(content) :
                      /\ content[i] \in {"[", "{"}
                      /\ LastIndexOf(content, Closer(content[i])) > i}
    IN  IF starts = {} THEN <<>>
        ELSE LET i == CHOOSE k \in starts : \A j \in starts : k <= j
             IN  Slice(content, i, LastIndexOf(content, Closer(content[i])))

(***************************************************************************)
(* The state.                                                              *)
(***************************************************************************)
VARIABLES
    model,          \* the identifier the session passes to get_next_action
    messages,       \* the shared message history (the caller's list object)
    gpt4_messages,  \* call_claude_3_with_ocr, line 1537: the converted copy
    onCopy,         \* call_gpt_4o was handed gpt4_messages, not messages
    pc,             \* "idle", or the function waiting for a model response
    turn,           \* calls of get_next_action so far
    depth,          \* self re-invocations of the running backend in this turn
    result,         \* what the last call of get_next_action gave its caller
    slept,          \* time.sleep(1) ran since the last model request
    requests,       \* the model requests of this turn, in order
    responses,      \* what each request of this turn got
    trace,          \* the functions entered in this turn, in order
    errors,         \* the exceptions raised in this turn, in order
    parsed,         \* the batch the selected backend parsed from its response
    firstMiss,      \* index in parsed of the first click no resolver located
    before,         \* the message history as the turn received it
    screen,         \* the OCR result the turn read from its screenshot
    call            \* the last call of a function that is applied on its own

vars == <<model, messages, gpt4_messages, onCopy, pc, turn, depth, result, slept,
          requests, responses, trace, errors, parsed, firstMiss, before,
          screen, call>>

\* the state as one record, so that a handler is a function from state to state
Cur ==
    [model |-> model, messages |-> messages, gpt4_messages |-> gpt4_messages,
     onCopy |-> onCopy, pc |-> pc, turn |-> turn, depth |-> depth, result |-> result,
     slept |-> slept, requests |-> requests, responses |-> responses, trace |-> trace,
     errors |-> errors, parsed |-> parsed, firstMiss |-> firstMiss, before |-> before,
     screen |-> screen]

Becomes(s) ==
    /\ model' = s.model
    /\ messages' = s.messages
    /\ gpt4_messages' = s.gpt4_messages
    /\ onCopy' = s.onCopy
    /\ pc' = s.pc
    /\ turn' = s.turn
    /\ depth' = s.depth
    /\ result' = s.result
    /\ slept' = s.slept
    /\ requests' = s.requests
    /\ responses' = s.responses
    /\ trace' = s.trace
    /\ errors' = s.errors
    /\ parsed' = s.parsed
    /\ firstMiss' = s.firstMiss
    /\ before' = s.before
    /\ screen' = s.screen
    /\ call' = call

(***************************************************************************)
(* Identifiers, messages, results.                                         *)
(***************************************************************************)
\* get_next_action, lines 39-64
Recognised == {"gpt-4", "claude-3.7", "qwen-vl", "gpt-4-with-som", "gpt-4-with-ocr",
               "o1-with-ocr", "agent-1", "gemini-pro-vision", "llava", "claude-3"}

\* the identifiers a session may pass: the recognised ones and one that is not
ModelIds == Recognised \cup {"gpt-5"}

\* get_system_prompt(model, objective) as a system message
SystemMessage(m) ==
    [role |-> "system", content |-> <<"system_prompt", m>>, images |-> "absent"]

\* get_user_first_message_prompt() / get_user_prompt()
UserPrompt(ms) == IF Len(ms) = 1 THEN "first_message_prompt" ELSE "user_prompt"

AssistantMessage(content) ==
    [role |-> "assistant", content |-> content, images |-> "absent"]

NoResult      == [kind |-> "none", ops |-> <<>>, exc |-> ""]
ListOf(ops)   == [kind |-> "list", ops |-> ops, exc |-> ""]
DictOf(ops)   == [kind |-> "dict", ops |-> ops, exc |-> ""]
NoneValue     == [kind |-> "None", ops |-> <<>>, exc |-> ""]
ComingSoon    == [kind |-> "str", ops |-> <<>>, exc |-> ""]
Raised(e)     == [kind |-> "raise", ops |-> <<>>, exc |-> e]

\* the value json.loads gave, as a result
Loaded(j) == IF j.kind = "list" THEN ListOf(j.ops) ELSE DictOf(j.ops)

\* return (or raise) to the caller of get_next_action
Return(s, r) == [s EXCEPT !.pc = "idle", !.result = r]

\* the list object the running call_gpt_4o works on
Work(s) == IF s.onCopy THEN s.gpt4_messages ELSE s.messages

SetWork(s, l) ==
    IF s.onCopy THEN [s EXCEPT !.gpt4_messages = l] ELSE [s EXCEPT !.messages = l]

Entered(s, fn) == [s EXCEPT !.trace = Append(@, fn)]
Erred(s, e)    == [s EXCEPT !.errors = Append(@, e)]
Got(s, what)   == [s EXCEPT !.responses = Append(@, what)]

\* a model request: who sent it, to which model, under which system prompt,
\* with which messages
Requested(s, fn, m, sys, repair, sent) ==
    [s EXCEPT !.pc = fn,
              !.slept = FALSE,
              !.requests = Append(@, [fn |-> fn, model |-> m, system |-> sys,
                                      repair |-> repair, delayed |-> s.slept,
                                      messages |-> sent])]

\* what the outside world does to a set-up step and to a model request
Setups == {"ok", "init_fail", "setup_fail"}

(***************************************************************************)
(* call_gpt_4o                                                             *)
(***************************************************************************)
\* lines 68-113: from the entry to the request.  initialize_openai (line 72)
\* is outside the try; a failure of lines 74-83 enters the handler, whose
\* line 138 reads content before it was assigned
call_gpt_4o(s, setup) ==
    LET s1 == [Entered(s, "call_gpt_4o") EXCEPT !.slept = TRUE]
        ms == Work(s1)
        vision_message == [role |-> "user", content |-> <<UserPrompt(ms), "image_url">>,
                           images |-> "absent"]
    IN  IF setup = "init_fail" THEN Return(Erred(s1, "ClientError"), Raised("ClientError"))
        ELSE IF setup = "setup_fail"
            THEN Return(Erred(Erred(s1, "SetupError"), "UnboundLocalError"),
                        Raised("UnboundLocalError"))
        ELSE Requested(SetWork(s1, Append(ms, vision_message)),
                       "call_gpt_4o", "gpt-4o", ms[1].content, FALSE,
                       Append(ms, vision_message))

\* lines 108-142: from the response to the return, or to the request of the
\* re-invocation (line 142)
gpt_4o_response(s, resp, setup) ==
    IF resp.error # "none"
        THEN Return(Erred(Erred(Got(s, "raise"), "RequestError"), "UnboundLocalError"),
                    Raised("UnboundLocalError"))
    ELSE LET content == clean_json(resp.content)
             assistant_message == AssistantMessage(content)
             j == json_loads(content)
         IN  IF j.ok
                 THEN Return(SetWork(Got(s, j.kind), Append(Work(s), assistant_message)),
                             Loaded(j))
             ELSE call_gpt_4o([Erred(Got(s, "bad"), "JSONDecodeError")
                                  EXCEPT !.depth = @ + 1], setup)

\* gpt_4_fallback
gpt_4_fallback(s, setup) ==
    LET s1 == Entered(s, "gpt_4_fallback")
        ms == Work(s1)
    IN  call_gpt_4o(SetWork(s1, [ms EXCEPT ![1] = SystemMessage("gpt-4o")]), setup)

\* confirm_system_prompt that starts the history afresh
confirm_system_prompt_afresh(s, m) ==
    [s EXCEPT !.messages = <<SystemMessage(m)>>]

\* confirm_system_prompt
confirm_system_prompt(s, m) ==
    [s EXCEPT !.messages = [@ EXCEPT ![1] = SystemMessage(m)]]

(***************************************************************************)
(* call_claude_37                                                          *)
(***************************************************************************)
\* line 624, line 621: the synthesized texts
ContinuingText   == Arr(<<"kContinuing">>)
TaskCompleteText == Arr(<<"kTaskComplete">>)

\* line 641
ContinuingWithTask ==
    [Op("wait", {"thought", "duration"}, <<"Continuing", "with", "task">>)
        EXCEPT !.duration = 1]
\* line 728
PlainWait == [Op("wait", {"duration"}, <<>>) EXCEPT !.duration = 1]
\* line 751
AfterErrorWait ==
    [Op("wait", {"thought", "duration"}, <<"Continuing", "task", "after", "error">>)
        EXCEPT !.duration = 1]

\* claude_37_extract without the completion keywords: a prose answer always
\* becomes the wait operation
claude_37_extract_no_keywords(content) ==
    IF StartsWith(Strip(content), <<"[">>) \/ StartsWith(Strip(content), <<"{">>)
        THEN clean_json(content)
    ELSE LET json_match == JsonBlockSearch(content)
         IN  IF json_match # <<>> THEN clean_json(json_match) ELSE ContinuingText

\* lines 607-624: the text handed to json.loads
claude_37_extract(content) ==
    IF StartsWith(Strip(content), <<"[">>) \/ StartsWith(Strip(content), <<"{">>)
        THEN clean_json(content)
    ELSE LET json_match == JsonBlockSearch(content)
         IN  IF json_match # <<>> THEN clean_json(json_match)
             ELSE IF TextContains(content, "done") \/ TextContains(content, "complete")
                 THEN TaskCompleteText
             ELSE ContinuingText

\* lines 647-655
need_double_click(batch) ==
    \E i \in 1..Len(batch) :
        \/ "double_click" \in batch[i].has /\ batch[i].double_click
        \/ /\ "thought" \in batch[i].has
           /\ TextContains(batch[i].thought, "double")
           /\ TextContains(batch[i].thought, "click")

\* line 668: the words between the first pair of quotes with words between
QuotedMatch(th) ==
    LET quotes == {i \in 1..Len(th) : th[i] = "'"}
        opens  == {i \in quotes : /\ i + 1 <= Len(th)
                                  /\ th[i + 1] # "'"
                                  /\ \E j \in quotes : j > i}
    IN  IF opens = {} THEN <<>>
        ELSE LET i == CHOOSE k \in opens : \A m \in opens : k <= m
                 j == CHOOSE k \in quotes : k > i /\ \A m \in quotes : m > i => k <= m
             IN  Slice(th, i + 1, j - 1)

\* line 673: a word of the shape a-b-c, or sbc-x
PatternWords == {"sbc-images-main"}

PatternMatch(th) ==
    LET hits == {i \in 1..Len(th) : th[i] \in PatternWords}
    IN  IF hits = {} THEN <<>> ELSE <<th[CHOOSE k \in hits : \A m \in hits : k <= m]>>

\* lines 678-684: the words after the first click indicator found, up to the
\* first period or comma
IndicatorAt(th, i, ind) ==
    i + 1 <= Len(th) /\ Lower(th[i]) = ind[1] /\ Lower(th[i + 1]) = ind[2]

UpToStop(t) ==
    LET stops == {i \in 1..Len(t) : t[i] \in {".", ","}}
    IN  IF stops = {} THEN t
        ELSE Slice(t, 1, (CHOOSE k \in stops : \A m \in stops : k <= m) - 1)

RECURSIVE AfterIndicator(_, _)
AfterIndicator(th, inds) ==
    IF inds = <<>> THEN <<>>
    ELSE LET at == {i \in 1..Len(th) : IndicatorAt(th, i, Head(inds))}
         IN  IF at = {} THEN AfterIndicator(th, Tail(inds))
             ELSE LET i == CHOOSE k \in at : \A m \in at : k <= m
                  IN  UpToStop(LowerText(Slice(th, i + 2, Len(th))))

click_indicators == << <<"click", "on">>, <<"click", "the">>,
                       <<"clicking", "on">>, <<"clicking", "the">> >>

\* lines 660-684
target_description(op) ==
    IF "text" \in op.has THEN op.text
    ELSE IF "thought" \in op.has
        THEN IF QuotedMatch(op.thought) # <<>> THEN QuotedMatch(op.thought)
             ELSE IF PatternMatch(op.thought) # <<>> THEN PatternMatch(op.thought)
             ELSE AfterIndicator(op.thought, click_indicators)
    ELSE <<>>

\* lines 657-722: the batch after the click handling; ok is FALSE when line 687
\* reads a coordinate the operation does not have (KeyError)
RECURSIVE claude_37_process(_, _, _)
claude_37_process(batch, i, need) ==
    IF i > Len(batch) THEN [ok |-> TRUE, ops |-> <<>>]
    ELSE LET operation == batch[i]
             rest == claude_37_process(batch, i + 1, need)
             has_xy == {"x", "y"} \subseteq operation.has
             \* lines 693-706: i counts from 0 in the source
             marked == IF need /\ i = 1 /\ has_xy
                           THEN [operation EXCEPT !.double_click = TRUE,
                                                  !.has = @ \cup {"double_click"}]
                       ELSE operation
         IN  IF ~IsClick(operation)
                 THEN [ok |-> rest.ok, ops |-> <<operation>> \o rest.ops]
             ELSE IF target_description(operation) = <<>> /\ ~has_xy
                 THEN [ok |-> FALSE, ops |-> <<>>]
             ELSE IF need /\ i > 1 THEN rest
             ELSE [ok |-> rest.ok, ops |-> <<marked>> \o rest.ops]

\* lines 556-590: the messages of the request, messages[1:-1] of the history
\* and the vision message of the turn; index 0 is always a system message
anthropic_messages(ms) ==
    LET user_messages == IF Len(ms) > 1 THEN Slice(ms, 2, Len(ms) - 1) ELSE <<>>
        vision_message == [role |-> "user", content |-> <<UserPrompt(ms), "image">>,
                           images |-> "absent"]
    IN  SelectSeq(user_messages, LAMBDA msg : msg.role \in {"user", "assistant"})
            \o <<vision_message>>

\* lines 500-602: from the entry to the request; everything is inside the try
call_claude_37(s, setup) ==
    LET s1 == [Entered(s, "call_claude_37") EXCEPT !.slept = TRUE]
    IN  IF setup # "ok"
            THEN Return(Erred(s1, "SetupError"), ListOf(<<AfterErrorWait>>))
        ELSE Requested(s1, "call_claude_37", "claude-3-7-sonnet-20250219",
                       s1.messages[1].content, FALSE, anthropic_messages(s1.messages))

\* claude_37_response with the handler of the other backends: a failed
\* request is answered by the plain backend
claude_37_response_falls_back(s, resp) ==
    IF resp.error # "none"
        THEN call_gpt_4o(Erred(Got(s, "raise"), "RequestError"), "ok")
    ELSE LET content == claude_37_extract(resp.content)
             j == json_loads(content)
             parsed_content == IF j.ok THEN j.ops ELSE <<ContinuingWithTask>>
             s1 == [Got(s, IF j.ok THEN j.kind ELSE "bad") EXCEPT !.parsed = parsed_content]
             s2 == IF j.ok THEN s1 ELSE Erred(s1, "JSONDecodeError")
             done == claude_37_process(parsed_content, 1, need_double_click(parsed_content))
         IN  IF j.ok /\ j.kind = "dict"
                 THEN Return(Erred(s2, "AttributeError"), ListOf(<<AfterErrorWait>>))
             ELSE IF ~done.ok
                 THEN Return(Erred(s2, "KeyError"), ListOf(<<AfterErrorWait>>))
             ELSE Return([s2 EXCEPT !.messages = Append(@, AssistantMessage(resp.content))],
                         ListOf(IF done.ops # <<>> THEN done.ops ELSE <<PlainWait>>))

\* lines 605-751: from the response to the return
claude_37_response(s, resp) ==
    IF resp.error # "none"
        THEN Return(Erred(Got(s, "raise"), "RequestError"), ListOf(<<AfterErrorWait>>))
    ELSE LET content == claude_37_extract(resp.content)
             assistant_message == AssistantMessage(resp.content)
             j == json_loads(content)
             parsed_content == IF j.ok THEN j.ops ELSE <<ContinuingWithTask>>
             s1 == [Got(s, IF j.ok THEN j.kind ELSE "bad") EXCEPT !.parsed = parsed_content]
             s2 == IF j.ok THEN s1 ELSE Erred(s1, "JSONDecodeError")
             done == claude_37_process(parsed_content, 1, need_double_click(parsed_content))
         IN  IF j.ok /\ j.kind = "dict"
                 \* line 649: the keys of a dict are strings, which have no get
                 THEN Return(Erred(s2, "AttributeError"), ListOf(<<AfterErrorWait>>))
             ELSE IF ~done.ok
                 THEN Return(Erred(s2, "KeyError"), ListOf(<<AfterErrorWait>>))
             ELSE Return([s2 EXCEPT !.messages = Append(@, assistant_message)],
                         ListOf(IF done.ops # <<>> THEN done.ops ELSE <<PlainWait>>))

(***************************************************************************)
(* The OCR-augmented backends: call_qwen_vl_with_ocr, call_gpt_4o_with_ocr *)
(* and call_o1_with_ocr are the same code around three different requests. *)
(***************************************************************************)
\* the characters of a word
Chars(w) ==
    CASE w = "foo"  -> <<"f", "o", "o">>
      [] w = "Doc"  -> <<"D", "o", "c">>
      [] w = "Docs" -> <<"D", "o", "c", "s">>
      [] w = "My"   -> <<"M", "y">>
      [] w = "Click" -> <<"C", "l", "i", "c", "k">>
      [] w = "Open" -> <<"O", "p", "e", "n">>
      [] w = "Ok"   -> <<"O", "k">>
      [] w = "docs" -> <<"d", "o", "c", "s">>
      [] w = "doc"  -> <<"d", "o", "c">>
      [] w = "sbc"  -> <<"s", "b", "c">>
      [] w = "file" -> <<"f", "i", "l", "e">>
      [] w = "image" -> <<"i", "m", "a", "g", "e">>
      [] w = "folder" -> <<"f", "o", "l", "d", "e", "r">>
      [] OTHER      -> <<w>>

\* a text (a sequence of words) as a string: its characters, the words
\* separated by blanks
RECURSIVE TextChars(_)
TextChars(text) ==
    IF text = <<>> THEN <<>>
    ELSE IF Len(text) = 1 THEN Chars(text[1])
    ELSE Chars(text[1]) \o <<SP>> \o TextChars(Tail(text))

\* reader.readtext (lines 820-823): the OCR result of the screenshot, one
\* element for each text on the screen, with the centre of its box as a
\* fractional point
Element(w, x, y) == [text |-> Chars(w), x |-> x, y |-> y]

\* the centre of the box of the text the resolver is asked for in the spec's
\* scenario
OcrCoordinates == [x |-> 14, y |-> 27]

\* sub occurs in s
IsSubstring(sub, s) ==
    \E i \in 1..(Len(s) - Len(sub) + 1) : Slice(s, i, i + Len(sub) - 1) = sub

\* get_text_element (operate.utils.ocr): the index of the element that best
\* matches the text, an exact match before a partial one; 0 stands for the
\* exception raised when no element matches (or the text is None)
get_text_element(ocr_result, key) ==
    LET exact   == {i \in 1..Len(ocr_result) : ocr_result[i].text = key}
        partial == {i \in 1..Len(ocr_result) : IsSubstring(key, ocr_result[i].text)}
    IN  IF key = <<>> THEN 0
        ELSE IF exact # {} THEN CHOOSE k \in exact : \A m \in exact : k <= m
        ELSE IF partial # {} THEN CHOOSE k \in partial : \A m \in partial : k <= m
        ELSE 0

\* get_text_coordinates (operate.utils.ocr): the centre of the element
get_text_coordinates(ocr_result, index) ==
    [x |-> ocr_result[index].x, y |-> ocr_result[index].y]

\* text_to_click, as it is handed to get_text_element: operation.get("text")
\* (line 826), and in call_claude_3_with_ocr its first three characters
\* (line 1494); <<>> stands for None
text_to_click(operation, cut) ==
    LET chars == TextChars(operation.text)
    IN  IF "text" \notin operation.has THEN <<>>
        ELSE IF cut /\ Len(chars) > 3 THEN Slice(chars, 1, 3)
        ELSE chars

\* the first click of the batch the OCR resolver fails on, 0 when it fails on
\* none
FirstOcrMiss(batch, ocr_result, cut) ==
    LET bad == {i \in 1..Len(batch) :
                   /\ IsClick(batch[i])
                   /\ get_text_element(ocr_result, text_to_click(batch[i], cut)) = 0}
    IN  IF bad = {} THEN 0 ELSE CHOOSE k \in bad : \A m \in bad : k <= m

\* lines 811-852 (976-1017, 1089-1130, 1478-1520): every click gets the
\* coordinates of the element found for its text
ocr_process(batch, ocr_result, cut) ==
    [i \in 1..Len(batch) |->
        IF IsClick(batch[i])
            THEN LET coordinates ==
                         get_text_coordinates(ocr_result,
                             get_text_element(ocr_result, text_to_click(batch[i], cut)))
                 IN  [batch[i] EXCEPT !.x = coordinates.x, !.y = coordinates.y,
                                      !.has = @ \cup {"x", "y"}]
        ELSE batch[i]]

\* the OCR result the turn read, <<>> when the batch has no click to look up
Read(batch, ocr_result) ==
    IF \E i \in 1..Len(batch) : IsClick(batch[i]) THEN ocr_result ELSE <<>>

\* the model each of them queries: lines 796, 961, 1074
RequestModel(fn) ==
    CASE fn = "call_qwen_vl_with_ocr" -> "qwen2.5-vl-72b-instruct"
      [] fn = "call_gpt_4o_with_ocr"  -> "o1"
      [] fn = "call_o1_with_ocr"      -> "gpt-4o"

\* lines 782-792, 948-957, 1061-1070
OcrVisionMessage(fn, ms) ==
    [role |-> "user",
     content |-> IF fn = "call_qwen_vl_with_ocr"
                     THEN <<UserPrompt(ms), "REMEMBER", "image_url">>
                 ELSE <<UserPrompt(ms), "image_url">>,
     images |-> "absent"]

\* lines 752-798 (922-963, 1035-1076): from the entry to the request
call_with_ocr(s, fn, setup, fsetup) ==
    LET s1 == [Entered(s, fn) EXCEPT !.slept = TRUE]
        s2 == confirm_system_prompt(s1, s1.model)
    IN  IF setup = "init_fail" THEN gpt_4_fallback(Erred(s1, "ClientError"), fsetup)
        ELSE IF setup = "setup_fail" THEN gpt_4_fallback(Erred(s2, "SetupError"), fsetup)
        ELSE Requested([s2 EXCEPT !.messages = Append(@, OcrVisionMessage(fn, s2.messages))],
                       fn, RequestModel(fn), s2.messages[1].content, FALSE,
                       Append(s2.messages, OcrVisionMessage(fn, s2.messages)))

\* lines 800-867 (965-1032, 1078-1145): from the response to the return, or
\* to the request of the fallback
with_ocr_response(s, resp, ocr, fsetup) ==
    IF resp.error # "none" THEN gpt_4_fallback(Erred(Got(s, "raise"), "RequestError"), fsetup)
    ELSE LET content_str == clean_json(resp.content)
             j == json_loads(content_str)
             s1 == [Got(s, IF j.ok THEN j.kind ELSE "bad")
                       EXCEPT !.parsed = j.ops, !.screen = Read(j.ops, ocr),
                              !.firstMiss = FirstOcrMiss(j.ops, ocr, FALSE)]
         IN  IF ~j.ok THEN gpt_4_fallback(Erred(s1, "JSONDecodeError"), fsetup)
             ELSE IF j.kind = "dict" THEN gpt_4_fallback(Erred(s1, "AttributeError"), fsetup)
             ELSE IF s1.firstMiss # 0 THEN gpt_4_fallback(Erred(s1, "ResolveError"), fsetup)
             ELSE Return([s1 EXCEPT !.messages = Append(@, AssistantMessage(content_str))],
                         ListOf(ocr_process(j.ops, ocr, FALSE)))

(***************************************************************************)
(* call_gpt_4o_labeled                                                     *)
(***************************************************************************)
\* get_label_coordinates / get_click_position_in_percent (operate.utils.label):
\* the centre of the box of a label, None for a label that is not in the map
LabelCoordinates == [x |-> 33, y |-> 66]

\* the first click of the batch whose label is not in the detection map, 0
\* when there is none: a click without a label is looked up as None, and miss
\* is the first click whose label the detector did not produce
FirstLabelMiss(batch, miss) ==
    LET bad == {i \in 1..Len(batch) :
                   IsClick(batch[i]) /\ ("label" \notin batch[i].has \/ i = miss)}
    IN  IF bad = {} THEN 0 ELSE CHOOSE k \in bad : \A m \in bad : k <= m

\* lines 1148-1200: from the entry to the request; the handler (line 1289)
\* calls call_gpt_4o on the same list
call_gpt_4o_labeled(s, setup, fsetup) ==
    LET s1 == [Entered(s, "call_gpt_4o_labeled") EXCEPT !.slept = TRUE]
        s2 == confirm_system_prompt(s1, s1.model)
        vision_message == [role |-> "user",
                           content |-> <<UserPrompt(s2.messages), "image_url_labeled">>,
                           images |-> "absent"]
    IN  IF setup = "init_fail" THEN call_gpt_4o(Erred(s1, "ClientError"), fsetup)
        ELSE IF setup = "setup_fail" THEN call_gpt_4o(Erred(s2, "SetupError"), fsetup)
        ELSE Requested([s2 EXCEPT !.messages = Append(@, vision_message)],
                       "call_gpt_4o_labeled", "gpt-4o", s2.messages[1].content, FALSE,
                       Append(s2.messages, vision_message))

\* lines 1202-1289: from the response to the return, or to the request of
\* call_gpt_4o.  The return of line 1280 is inside the loop: the first
\* operation ends it.
gpt_4o_labeled_response(s, resp, miss, fsetup) ==
    IF resp.error # "none" THEN call_gpt_4o(Erred(Got(s, "raise"), "RequestError"), fsetup)
    ELSE LET content == clean_json(resp.content)
             j == json_loads(content)
             s1 == [Got(s, IF j.ok THEN j.kind ELSE "bad")
                       EXCEPT !.messages = Append(@, AssistantMessage(content)),
                              !.parsed = j.ops,
                              !.firstMiss = FirstLabelMiss(j.ops, miss)]
             operation == j.ops[1]
             \* lines 1233-1254: no click position for the label of the operation
             unresolved == s1.firstMiss = 1
         IN  IF ~j.ok THEN call_gpt_4o(Erred(s1, "JSONDecodeError"), fsetup)
             ELSE IF j.kind = "dict" THEN call_gpt_4o(Erred(s1, "AttributeError"), fsetup)
             ELSE IF j.ops = <<>> THEN Return(s1, NoneValue)
             ELSE IF unresolved THEN call_gpt_4o(s1, fsetup)
             ELSE IF IsClick(operation)
                 THEN Return(s1, ListOf(<<[operation EXCEPT !.x = LabelCoordinates.x,
                                                            !.y = LabelCoordinates.y,
                                                            !.has = @ \cup {"x", "y"}]>>))
             ELSE Return(s1, ListOf(<<operation>>))

(***************************************************************************)
(* call_gemini_pro_vision                                                  *)
(***************************************************************************)
\* line 898: response.text[1:]
DropFirstChar(t) ==
    IF t = <<>> THEN <<>>
    ELSE IF Head(t) \in OneChar THEN Tail(t)
    ELSE <<"cut">> \o Tail(t)

\* lines 870-896: from the entry to the request
call_gemini_pro_vision(s, setup, fsetup) ==
    LET s1 == [Entered(s, "call_gemini_pro_vision") EXCEPT !.slept = TRUE]
    IN  IF setup # "ok" THEN call_gpt_4o(Erred(s1, "SetupError"), fsetup)
        ELSE Requested(s1, "call_gemini_pro_vision", "gemini-pro-vision",
                       SystemMessage("gemini-pro-vision").content, FALSE,
                       <<[role |-> "user", content |-> <<"prompt", "image">>,
                          images |-> "absent"]>>)

\* lines 898-919: from the response to the return, or to the request of
\* call_gpt_4o
gemini_pro_vision_response(s, resp, fsetup) ==
    IF resp.error # "none" THEN call_gpt_4o(Erred(Got(s, "raise"), "RequestError"), fsetup)
    ELSE LET j == json_loads(DropFirstChar(resp.content))
             s1 == [Got(s, IF j.ok THEN j.kind ELSE "bad") EXCEPT !.parsed = j.ops]
         IN  IF ~j.ok THEN call_gpt_4o(Erred(s1, "JSONDecodeError"), fsetup)
             ELSE Return(s1, Loaded(j))

(***************************************************************************)
(* call_ollama_llava                                                       *)
(***************************************************************************)
\* lines 1292-1327: from the entry to the request.  A failure before the
\* response enters the handler of line 1356, whose line 1363 reads content
\* before it was assigned.
call_ollama_llava(s, setup) ==
    LET s1 == [Entered(s, "call_ollama_llava") EXCEPT !.slept = TRUE]
        vision_message == [role |-> "user", content |-> <<UserPrompt(s1.messages)>>,
                           images |-> "file"]
    IN  IF setup # "ok"
            THEN Return(Erred(Erred(s1, "SetupError"), "UnboundLocalError"),
                        Raised("UnboundLocalError"))
        ELSE Requested([s1 EXCEPT !.messages = Append(@, vision_message)],
                       "call_ollama_llava", "llava", s1.messages[1].content, FALSE,
                       Append(s1.messages, vision_message))

\* lines 1324-1367: from the response to the return, or to the request of the
\* re-invocation (line 1367)
ollama_llava_response(s, resp, setup) ==
    IF resp.error = "ResponseError"
        THEN Return(Erred(Got(s, "raise"), "ResponseError"), NoneValue)
    ELSE IF resp.error # "none"
        THEN Return(Erred(Erred(Got(s, "raise"), "RequestError"), "UnboundLocalError"),
                    Raised("UnboundLocalError"))
    ELSE LET n == Len(s.messages)
             s1 == [s EXCEPT !.messages = [@ EXCEPT ![n].images = "None"]]
             content == clean_json(Strip(resp.content))
             j == json_loads(content)
         IN  IF j.ok
                 THEN Return([Got(s1, j.kind)
                                 EXCEPT !.messages = Append(@, AssistantMessage(content)),
                                        !.parsed = j.ops],
                             Loaded(j))
             ELSE call_ollama_llava([Erred(Got(s1, "bad"), "JSONDecodeError")
                                        EXCEPT !.depth = @ + 1], setup)

(***************************************************************************)
(* call_claude_3_with_ocr                                                  *)
(***************************************************************************)
\* lines 1537-1560: the history in the format of the fallback backend, a new
\* list; the image blocks of the user messages change their type
ConvertContent(content) ==
    [i \in 1..Len(content) |-> IF content[i] = "image" THEN "image_url" ELSE content[i]]

ConvertMessages(ms) ==
    [i \in 1..Len(ms) |->
        IF i = 1 THEN ms[1]
        ELSE IF ms[i].role = "user"
            THEN [role |-> "user", content |-> ConvertContent(ms[i].content),
                  images |-> "absent"]
        ELSE [role |-> "assistant", content |-> ms[i].content, images |-> "absent"]]

\* lines 1527-1562: the handler
claude_3_fallback(s, fsetup) ==
    gpt_4_fallback([s EXCEPT !.gpt4_messages = ConvertMessages(s.messages),
                             !.onCopy = TRUE], fsetup)

\* lines 1370-1446: from the entry to the request
call_claude_3_with_ocr(s, setup, fsetup) ==
    LET s1 == [Entered(s, "call_claude_3_with_ocr") EXCEPT !.slept = TRUE]
        s2 == confirm_system_prompt(s1, s1.model)
        vision_message == [role |-> "user",
                           content |-> <<"image", UserPrompt(s2.messages), "REMEMBER">>,
                           images |-> "absent"]
    IN  IF setup = "init_fail" THEN claude_3_fallback(Erred(s1, "ClientError"), fsetup)
        ELSE IF setup = "setup_fail" THEN claude_3_fallback(Erred(s2, "SetupError"), fsetup)
        ELSE Requested([s2 EXCEPT !.messages = Append(@, vision_message)],
                       "call_claude_3_with_ocr", "claude-3-opus-20240229",
                       s2.messages[1].content, FALSE,
                       Tail(Append(s2.messages, vision_message)))

\* lines 1472-1525: the parsed content to the return, or to the handler
claude_3_process(s, content_str, j, ocr, fsetup) ==
    LET s1 == [s EXCEPT !.parsed = j.ops, !.screen = Read(j.ops, ocr),
                        !.firstMiss = FirstOcrMiss(j.ops, ocr, TRUE)]
    IN  IF j.kind = "dict" THEN claude_3_fallback(Erred(s1, "AttributeError"), fsetup)
        ELSE IF s1.firstMiss # 0 THEN claude_3_fallback(Erred(s1, "ResolveError"), fsetup)
        ELSE Return([s1 EXCEPT !.messages = Append(@, AssistantMessage(content_str))],
                    ListOf(ocr_process(j.ops, ocr, TRUE)))

\* lines 1448-1466: from the first response to the corrective request, or on
claude_3_response(s, resp, ocr, fsetup) ==
    IF resp.error # "none" THEN claude_3_fallback(Erred(Got(s, "raise"), "RequestError"), fsetup)
    ELSE LET content == clean_json(resp.content)
             j == json_loads(content)
         IN  IF j.ok THEN claude_3_process(Got(s, j.kind), content, j, ocr, fsetup)
             ELSE [Requested(Erred(Got(s, "bad"), "JSONDecodeError"),
                             "call_claude_3_with_ocr", "claude-3-opus-20240229",
                             <<"json_not_valid">>, TRUE,
                             <<[role |-> "user", content |-> content, images |-> "absent"]>>)
                      EXCEPT !.pc = "claude_3_repair"]

\* claude_3_repair_response as a loop: a corrected text that does not parse
\* is sent back for another correction
claude_3_repair_again(s, resp, ocr, fsetup) ==
    IF resp.error # "none" THEN claude_3_fallback(Erred(Got(s, "raise"), "RequestError"), fsetup)
    ELSE LET content == clean_json(resp.content)
             j == json_loads(content)
         IN  IF j.ok THEN claude_3_process(Got(s, j.kind), content, j, ocr, fsetup)
             ELSE [Requested(Erred(Got(s, "bad"), "JSONDecodeError"),
                             "call_claude_3_with_ocr", "claude-3-opus-20240229",
                             <<"json_not_valid">>, TRUE,
                             <<[role |-> "user", content |-> content, images |-> "absent"]>>)
                      EXCEPT !.pc = "claude_3_repair"]

\* lines 1467-1470: from the response to the corrective request on
claude_3_repair_response(s, resp, ocr, fsetup) ==
    IF resp.error # "none" THEN claude_3_fallback(Erred(Got(s, "raise"), "RequestError"), fsetup)
    ELSE LET content == clean_json(resp.content)
             j == json_loads(content)
         IN  IF j.ok THEN claude_3_process(Got(s, j.kind), content, j, ocr, fsetup)
             ELSE claude_3_fallback(Erred(Got(s, "bad"), "JSONDecodeError"), fsetup)

(***************************************************************************)
(* get_next_action                                                         *)
(***************************************************************************)
\* Route with a default: an identifier that is not recognised goes to the
\* plain backend
Route_default(m) ==
    CASE m = "claude-3.7"        -> "call_claude_37"
      [] m = "qwen-vl"           -> "call_qwen_vl_with_ocr"
      [] m = "gpt-4-with-som"    -> "call_gpt_4o_labeled"
      [] m = "gpt-4-with-ocr"    -> "call_gpt_4o_with_ocr"
      [] m = "o1-with-ocr"       -> "call_o1_with_ocr"
      [] m = "agent-1"           -> "coming soon"
      [] m = "gemini-pro-vision" -> "call_gemini_pro_vision"
      [] m = "llava"             -> "call_ollama_llava"
      [] m = "claude-3"          -> "call_claude_3_with_ocr"
      [] OTHER                   -> "call_gpt_4o"

\* lines 39-65: the function an identifier is routed to
Route(m) ==
    CASE m = "gpt-4"             -> "call_gpt_4o"
      [] m = "claude-3.7"        -> "call_claude_37"
      [] m = "qwen-vl"           -> "call_qwen_vl_with_ocr"
      [] m = "gpt-4-with-som"    -> "call_gpt_4o_labeled"
      [] m = "gpt-4-with-ocr"    -> "call_gpt_4o_with_ocr"
      [] m = "o1-with-ocr"       -> "call_o1_with_ocr"
      [] m = "agent-1"           -> "coming soon"
      [] m = "gemini-pro-vision" -> "call_gemini_pro_vision"
      [] m = "llava"             -> "call_ollama_llava"
      [] m = "claude-3"          -> "call_claude_3_with_ocr"
      [] OTHER                   -> "ModelNotRecognizedException"

\* a turn begins: the records of the previous turn are dropped
NewTurn(s) ==
    [s EXCEPT !.turn = @ + 1, !.depth = 0, !.result = NoResult, !.slept = FALSE,
              !.requests = <<>>, !.responses = <<>>, !.trace = <<"get_next_action">>,
              !.errors = <<>>, !.parsed = <<>>, !.firstMiss = 0,
              !.gpt4_messages = <<>>, !.onCopy = FALSE, !.before = s.messages,
              !.screen = <<>>]

\* lines 35-65: from the call to the first request, or to the return
get_next_action(s0, setup, fsetup) ==
    LET s == NewTurn(s0)
        to == Route(s.model)
    IN  CASE to = "call_gpt_4o"            -> call_gpt_4o(s, setup)
          [] to = "call_claude_37"         -> call_claude_37(s, setup)
          [] to \in {"call_qwen_vl_with_ocr", "call_gpt_4o_with_ocr", "call_o1_with_ocr"}
                                           -> call_with_ocr(s, to, setup, fsetup)
          [] to = "call_gpt_4o_labeled"    -> call_gpt_4o_labeled(s, setup, fsetup)
          [] to = "call_gemini_pro_vision" -> call_gemini_pro_vision(s, setup, fsetup)
          [] to = "call_ollama_llava"      -> call_ollama_llava(s, setup)
          [] to = "call_claude_3_with_ocr" -> call_claude_3_with_ocr(s, setup, fsetup)
          [] to = "coming soon"            -> Return(s, ComingSoon)
          [] OTHER -> Return(Erred(s, "ModelNotRecognizedException"),
                             Raised("ModelNotRecognizedException"))

(***************************************************************************)
(* find_ui_element_by_text_and_vision.  Pixels are integers; a confidence  *)
(* is in thousandths (1200 is 1.2), a correlation, a similarity and an OCR *)
(* confidence in hundredths; the point returned is in hundredths of the    *)
(* screen.                                                                 *)
(***************************************************************************)
Candidate(type, confidence, x, y) ==
    [type |-> type, confidence |-> confidence, center |-> [x |-> x, y |-> y]]

\* lines 216-219: the words of the lower-cased description that are not stop
\* words; clean_target is TextChars of them
target_words(description) ==
    LET stop_words == {"the", "a", "an", "to", "on", "in", "by", "it", "this", "that",
                       "for", "with", "click", "double"}
    IN  SelectSeq(LowerText(description), LAMBDA word : word \notin stop_words)

\* str.lower of a string
LowerChars(text) ==
    [i \in 1..Len(text) |-> CASE text[i] = "D" -> "d"
                               [] text[i] = "M" -> "m"
                               [] OTHER -> text[i]]

\* lines 234-264: the templates whose name matches the target; m is the name
\* of the template, the peak of the correlation, its place, and the size of
\* the template
template_results(templates, description) ==
    LET words == target_words(description)
        clean_target == TextChars(words)
        \* lines 243-244
        named(m) ==
            LET template_name == LowerText(m.name)
            IN  \/ \E i \in 1..Len(words) :
                       IsSubstring(Chars(words[i]), TextChars(template_name))
                \/ \E i \in 1..Len(template_name) :
                       IsSubstring(Chars(template_name[i]), clean_target)
        good == SelectSeq(templates, LAMBDA m : named(m) /\ m.max_val > 70)
    IN  [i \in 1..Len(good) |->
            Candidate("template", good[i].max_val * 15,
                      good[i].left + good[i].w \div 2, good[i].top + good[i].h \div 2)]

\* lines 298-319: the candidate of a recognised text that matches the target
text_result(el) ==
    LET match_score == IF el.similarity > 80
                           THEN (((el.similarity * el.conf) \div 10) * 3) \div 2
                       ELSE (el.similarity * el.conf) \div 10
    IN  Candidate("text", match_score,
                  (el.left + el.right) \div 2, (el.top + el.bottom) \div 2)

\* lines 337-357: the place above a text that looks like the caption of an icon
icon_result(el) ==
    LET icon_area_width == el.right - el.left
        above == el.top - icon_area_width - 10
        icon_area_top == IF above > 0 THEN above ELSE 0
    IN  Candidate("icon", (text_result(el).confidence * 12) \div 10,
                  el.left + icon_area_width \div 2, icon_area_top + icon_area_width \div 2)

\* lines 281-370: the OCR strategy; an exception of the OCR engine (fails)
\* ends the strategy without a candidate.  The ratio of SequenceMatcher is 1
\* for equal strings and 0 when one of the two is empty; for another pair it
\* is the similarity the element comes with.
RECURSIVE ocr_results(_, _)
ocr_results(elements, description) ==
    IF elements = <<>> THEN <<>>
    ELSE LET words == target_words(description)
             clean_target == TextChars(words)
             text_lower == LowerChars(Head(elements).text)
             \* lines 291-294
             word_match == \E i \in 1..Len(words) :
                               /\ Len(Chars(words[i])) > 2
                               /\ IsSubstring(Chars(words[i]), text_lower)
             \* line 297
             matches == \/ word_match
                        \/ IsSubstring(clean_target, text_lower)
                        \/ IsSubstring(text_lower, clean_target)
             \* line 300
             similarity == IF clean_target = text_lower THEN 100
                           ELSE IF clean_target = <<>> \/ text_lower = <<>> THEN 0
                           ELSE Head(elements).similarity
             el == [Head(elements) EXCEPT !.similarity = similarity]
             \* lines 337-339
             caption ==
                 \/ \E hint \in {"folder", "file", "image", "doc", "sbc"} :
                        IsSubstring(Chars(hint), text_lower)
                 \/ \E k \in 2..(Len(text_lower) - 1) :
                        /\ text_lower[k] \in {"-", "."}
                        /\ {text_lower[k - 1], text_lower[k + 1]} \cap {"-", ".", SP} = {}
             found == IF ~matches THEN <<>>
                      ELSE IF caption THEN <<text_result(el), icon_result(el)>>
                      ELSE <<text_result(el)>>
         IN  found \o ocr_results(Tail(elements), description)

\* lines 372-415: the shape strategy, for a target that names a folder or a
\* file
shape_results(folderish, contours) ==
    IF ~folderish THEN <<>>
    ELSE LET kept == SelectSeq(contours, LAMBDA c : 100 < c.area /\ c.area < 5000)
         IN  [i \in 1..Len(kept) |-> Candidate("shape", 500, kept[i].x, kept[i].y)]

\* lines 232-415: the pool of the candidates of all strategies
pool_results(in) ==
    LET clean_target == TextChars(target_words(in.target))
        \* line 372
        folderish == \E hint \in {"folder", "file", "sbc"} :
                         IsSubstring(Chars(hint), clean_target)
    IN  template_results(in.templates, in.target)
            \o (IF in.ocr_fails THEN <<>> ELSE ocr_results(in.elements, in.target))
            \o shape_results(folderish, in.contours)

\* results[0] after a sort by the lowest confidence first
worst_match(results) ==
    results[CHOOSE k \in 1..Len(results) :
                /\ \A m \in 1..Len(results) : results[k].confidence <= results[m].confidence
                /\ \A m \in 1..(k - 1) : results[m].confidence > results[k].confidence]

\* lines 423-424: results.sort(reverse=True) by confidence, then results[0].
\* The sort is stable: of the candidates of the highest confidence the first
\* of the pool comes first.
best_match(results) ==
    results[CHOOSE k \in 1..Len(results) :
                /\ \A m \in 1..Len(results) : results[k].confidence >= results[m].confidence
                /\ \A m \in 1..(k - 1) : results[m].confidence < results[k].confidence]

NotFound == [kind |-> "None", x |-> 0, y |-> 0]

\* lines 430-443: the centre as a fraction of the screen
Located(center, size) ==
    [kind |-> "point", x |-> (center.x * 100) \div size.w, y |-> (center.y * 100) \div size.h]

\* the locator with a default: the middle of the screen when nothing was found
find_ui_element_or_middle(in) ==
    LET results == pool_results(in)
    IN  IF results # <<>> THEN Located(best_match(results).center, in.size)
        ELSE [kind |-> "point", x |-> 50, y |-> 50]

\* lines 196-446
find_ui_element_by_text_and_vision(in) ==
    LET results == pool_results(in)
    IN  IF results # <<>> THEN Located(best_match(results).center, in.size)
        ELSE NotFound

(***************************************************************************)
(* extract_target_from_text.  A text is its sequence of words, blanks and  *)
(* marks; a word is a maximal run of word characters, so a regular         *)
(* expression over the characters matches whole words of the sequence.     *)
(***************************************************************************)
QuoteMarks == {"'", "\""}

\* lines 158-161: quoted_pattern.findall(text)[0], the characters other than
\* quotes between a quote character and the next one; <<>> when no match
RECURSIVE first_quoted(_, _)
first_quoted(text, i) ==
    IF i > Len(text) THEN <<>>
    ELSE IF text[i] \notin QuoteMarks THEN first_quoted(text, i + 1)
    ELSE LET later == {j \in (i + 1)..Len(text) : text[j] \in QuoteMarks}
             j == CHOOSE k \in later : \A m \in later : k <= m
         IN  IF later = {} THEN <<>>
             ELSE IF j = i + 1 THEN first_quoted(text, i + 1)
             ELSE Slice(text, i + 1, j - 1)

\* lines 164-165: file_pattern.findall(text), three segments before two
RECURSIVE file_matches(_, _)
file_matches(text, i) ==
    LET IsWord(a) == a \notin QuoteMarks \cup Whitespace \cup {".", ",", "-"}
        joined(k) == /\ k + 2 <= Len(text)
                     /\ IsWord(text[k]) /\ text[k + 1] \in {"-", "."} /\ IsWord(text[k + 2])
    IN  IF i > Len(text) THEN <<>>
        ELSE IF joined(i) /\ joined(i + 2)
            THEN <<Slice(text, i, i + 4)>> \o file_matches(text, i + 5)
        ELSE IF joined(i) THEN <<Slice(text, i, i + 2)>> \o file_matches(text, i + 3)
        ELSE file_matches(text, i + 1)

\* line 168: one of the hints is in match.lower(); the words of the texts that
\* contain folder, file, image, doc or sbc
looks_like_file(match) ==
    \E k \in 1..Len(match) :
        \/ match[k] = "."
        \/ match[k] = "-" /\ k < Len(match) /\ Lower(match[k + 1]) = "main"
        \/ Lower(match[k]) \in {"folder", "images", "docs", "doc", "sbc"}

\* line 172
click_phrases == << <<"click", SP, "on", SP>>, <<"click", SP, "the", SP>>,
                    <<"clicking", SP, "on", SP>>, <<"clicking", SP, "the", SP>>,
                    <<"open", SP>>, <<"opening", SP>> >>

\* lines 173-181: the text after the first phrase of the list that is in the
\* lower-cased text and is followed by 2 to 5 words; <<>> when there is none
RECURSIVE after_phrase(_, _)
after_phrase(text, phrases) ==
    IF phrases = <<>> THEN <<>>
    ELSE LET low == LowerText(text)
             phrase == Head(phrases)
             at == {i \in 1..Len(low) : StartsWith(Slice(low, i, Len(low)), phrase)}
             first == CHOOSE k \in at : \A m \in at : k <= m
             cut(t, mark) == LET marks == {i \in 1..Len(t) : t[i] = mark}
                             IN  IF marks = {} THEN t
                                 ELSE Slice(t, 1, (CHOOSE k \in marks :
                                                      \A m \in marks : k <= m) - 1)
             target == Strip(cut(cut(Slice(low, first + Len(phrase), Len(low)), "."), ","))
             \* len(target.split()): the runs of characters other than white space
             WordCount(t) ==
                 Cardinality({i \in 1..Len(t) :
                                 t[i] \notin Whitespace /\ (i = 1 \/ t[i - 1] \in Whitespace)})
         IN  IF at # {} /\ 2 <= WordCount(target) /\ WordCount(target) <= 5 THEN target
             ELSE after_phrase(text, Tail(phrases))

\* lines 184-185: cap_word_pattern.findall(text), each match a run of
\* capitalised words with white space between them
RECURSIVE cap_matches(_, _)
cap_matches(text, i) ==
    LET \* [A-Z][a-z]+ between word boundaries: the capitalised words of the texts
        IsCapitalized(a) == a \in {"Click", "Open", "Docs", "Doc", "My", "Ok"}
        RECURSIVE run_end(_)
        \* the last word of the run that begins with the word at k
        run_end(k) ==
            LET blanks == {j \in (k + 1)..Len(text) :
                              \A m \in (k + 1)..j : text[m] \in Whitespace}
                next == k + Cardinality(blanks) + 1
            IN  IF blanks # {} /\ next <= Len(text) /\ IsCapitalized(text[next])
                    THEN run_end(next)
                ELSE k
    IN  IF i > Len(text) THEN <<>>
        ELSE IF IsCapitalized(text[i])
            THEN <<Slice(text, i, run_end(i))>> \o cap_matches(text, run_end(i) + 1)
        ELSE cap_matches(text, i + 1)

\* len of a string
RECURSIVE CharLen(_)
CharLen(t) == IF t = <<>> THEN 0 ELSE Len(Chars(Head(t))) + CharLen(Tail(t))

\* lines 145-193
extract_target_from_text(text) ==
    LET quoted == first_quoted(text, 1)
        files == SelectSeq(file_matches(text, 1), looks_like_file)
        target == after_phrase(text, click_phrases)
        likely_matches == SelectSeq(cap_matches(text, 1), LAMBDA m : CharLen(m) > 3)
    IN  IF quoted # <<>> THEN quoted
        ELSE IF files # <<>> THEN files[1]
        ELSE IF target # <<>> THEN target
        ELSE IF likely_matches # <<>> THEN likely_matches[1]
        ELSE text

(***************************************************************************)
(* verify_success.  An image is a row of pixels, a pixel its three         *)
(* channels.                                                               *)
(***************************************************************************)
\* line 473: cv2.resize to the width of the other image; an image twice as
\* wide is halved, each pixel the rounded mean of two
resize(img, width) ==
    IF Len(img) = 2 * width
        THEN [i \in 1..width |->
                 [c \in 1..3 |-> (img[2 * i - 1][c] + img[2 * i][c] + 1) \div 2]]
    ELSE img

\* lines 478-479: cv2.absdiff, then cv2.cvtColor to one grey level with the
\* fixed-point weights of the three channels
gray_diff(p, q) ==
    LET absdiff(a, b) == IF a > b THEN a - b ELSE b - a
    IN  (1868 * absdiff(p[1], q[1]) + 9617 * absdiff(p[2], q[2])
            + 4899 * absdiff(p[3], q[3]) + 8192) \div 16384

\* lines 480-485: the pixels above the threshold (255 in the thresholded
\* image), after the resize of line 473
changed_pixels(before_np, after) ==
    LET after_np == IF Len(after) # Len(before_np) THEN resize(after, Len(before_np))
                    ELSE after
    IN  Cardinality({i \in 1..Len(before_np) : gray_diff(before_np[i], after_np[i]) > 30})

\* verify_success with the comparison of line 495 as >=
verify_success_at_least(before_np, after, task_type) ==
    IF task_type = "open_folder"
        THEN changed_pixels(before_np, after) * 100 >= 15 * Len(before_np)
    ELSE FALSE

\* lines 449-497; after is the screenshot of line 465.  change_percentage is
\* (changed_pixels / total_pixels) * 100 in double precision, which is above
\* 15 exactly when 100 * changed_pixels is above 15 * total_pixels
verify_success(before_np, after, task_type) ==
    IF task_type = "open_folder"
        THEN changed_pixels(before_np, after) * 100 > 15 * Len(before_np)
    ELSE FALSE

(***************************************************************************)
(* The outside world: what a model answers.                                *)
(***************************************************************************)
\* texts a model may answer with.  Every backend is given the shapes its
\* code tells apart: an array of operations (bare, fenced, inside prose), the
\* empty array, a single object, a truncated array, prose without JSON.
Fenced(t) == <<Fence, "json", NL>> \o t \o <<NL, Fence>>

Truncated == <<"[", "{", "kWait", "}">>
Object    == <<"{", "kWait", "}">>

\* call_gpt_4o and call_ollama_llava: what they return is what they parsed
PlainContents ==
    { Arr(<<>>), Arr(<<"kClick", "kDone">>), Arr(<<"kDblBare">>),
      Fenced(Arr(<<"kDone">>)), Object, Truncated }

\* call_claude_37: the double-click and the prose handling
Claude37Batches ==
    { <<>>, <<"kDone">>, <<"kClick", "kClickB">>, <<"kWait", "kDbl">>,
      <<"kDbl", "kClickB">>, <<"kDblText", "kClick">>, <<"kDblBare", "kClick">>,
      <<"kPress", "kDbl", "kClickB">>, <<"kText">>, <<"kPress", "kDblBare">> }

Claude37Contents ==
    {Arr(b) : b \in Claude37Batches}
    \cup { Fenced(Arr(<<"kDone">>)), Object, Truncated, <<"Sure">>, <<"Done">>,
           <<"Task", "completed", ".">>, <<"see", "]">>,
           <<"Sure">> \o Arr(<<"kClick">>) \o <<"ok">>,
           <<"Sure">> \o Arr(<<"kClick">>) \o <<"see", "]">> }

\* the OCR-augmented backends: clicks named by a text
OcrContents ==
    { Arr(<<>>), Arr(<<"kText">>), Arr(<<"kTextDocs">>), Arr(<<"kPress", "kText", "kWait">>),
      Arr(<<"kClick", "kDone">>), Fenced(Arr(<<"kDone">>)), Object, Truncated }

\* call_gpt_4o_labeled: clicks named by a label
LabeledContents ==
    { Arr(<<>>), Arr(<<"kLabel">>), Arr(<<"kWait", "kLabel">>), Object, Truncated }

\* call_gemini_pro_vision: the answers of this model begin with a blank
GeminiContents ==
    { <<SP>> \o Arr(<<"kClick", "kDone">>), Arr(<<"kDone">>), <<SP>> \o Object,
      <<SP>> \o Truncated }

\* call_gpt_4o reached through a fallback
FallbackContents == { Arr(<<>>), Arr(<<"kClick", "kDone">>), Truncated }

ContentsOf(fn, m) ==
    CASE fn = "call_claude_37"         -> Claude37Contents
      [] fn = "call_gpt_4o_labeled"    -> LabeledContents
      [] fn = "call_gemini_pro_vision" -> GeminiContents
      [] fn \in {"call_qwen_vl_with_ocr", "call_gpt_4o_with_ocr", "call_o1_with_ocr",
                 "call_claude_3_with_ocr", "claude_3_repair"} -> OcrContents
      [] fn = "call_gpt_4o" /\ m # "gpt-4" -> FallbackContents
      [] OTHER -> PlainContents

\* a response: a text, or the request raising
Responses(fn, m) ==
    {[error |-> "none", content |-> c] : c \in ContentsOf(fn, m)}
    \cup {[error |-> "Exception", content |-> <<>>]}

\* ollama.ResponseError is raised by the Ollama client only
OllamaResponses ==
    Responses("call_ollama_llava", "llava") \cup {[error |-> "ResponseError", content |-> <<>>]}

\* the click of a batch whose label is not in the detection map, 0 for none
Misses == 0..2

\* what the OCR engine may read from the screenshot of a turn
OcrResults ==
    { <<>>,
      << Element("foo", 40, 10) >>,
      << Element("Docs", OcrCoordinates.x, OcrCoordinates.y) >>,
      << Element("Doc", 60, 60), Element("Docs", OcrCoordinates.x, OcrCoordinates.y),
         Element("foo", 40, 10) >> }

(***************************************************************************)
(* The arguments of the functions that are applied on their own.           *)
(***************************************************************************)
\* how a text handed to clean_json may open, and close
Openings == { <<>>, <<Fence>>, <<Fence, NL>>, <<Fence, "json">>, <<Fence, "json", NL>>,
              <<Fence, "python", NL>>, <<SP, Fence, "json", NL>> }
Closings == { <<>>, <<Fence>>, <<NL, Fence>>, <<NL, Fence, NL>>, <<"ok">> }
Bodies   == { <<>>, Arr(<<"kDone">>), <<SP>> \o Object, Truncated, <<"Sure">>,
              <<"[", NL, SP, "{", "kDone", "}", SP, NL, "]">> }

CleanJsonArgs == {o \o b \o c : o \in Openings, b \in Bodies, c \in Closings}

\* what the strategies of find_ui_element_by_text_and_vision may see
TemplateMatches ==
    { <<>>,
      << [name |-> <<"folder">>, max_val |-> 65, left |-> 10, top |-> 10, w |-> 20, h |-> 20] >>,
      << [name |-> <<"folder">>, max_val |-> 80, left |-> 100, top |-> 40, w |-> 20,
          h |-> 20] >> }

\* a text the OCR engine recognised: the text, what SequenceMatcher says of
\* it and the target, and the top edge of its box
TextElement(text, similarity, top) ==
    [text |-> Chars(text), similarity |-> similarity, conf |-> 90,
     left |-> 40, right |-> 80, top |-> top, bottom |-> top + 10]

OcrElements ==
    { <<>>,
      << TextElement("foo", 50, 60) >>,
      << TextElement("foo", 90, 60) >>,
      << TextElement("Docs", 90, 60) >>,
      << TextElement("Docs", 90, 5) >>,
      << TextElement("foo", 50, 60), TextElement("Docs", 50, 60) >> }

Contours ==
    { <<>>,
      << [area |-> 50, x |-> 20, y |-> 20] >>,
      << [area |-> 1000, x |-> 160, y |-> 30], [area |-> 2000, x |-> 20, y |-> 90] >> }

\* target_description: the last two hold stop words only
LocatorArgs ==
    [target : { <<"foo">>, <<"Docs">>, <<"the", "Docs", "folder">>, <<"Click", "on", "the">>,
                <<>> },
     templates : TemplateMatches, elements : OcrElements, ocr_fails : BOOLEAN,
     contours : Contours, size : {[w |-> 200, h |-> 100]}]

\* the texts handed to extract_target_from_text
ExtractorTexts ==
    { <<>>,
      <<"Click", SP, "on", SP, "the", SP, "'", "sbc", "-", "images", "-", "main", "'",
        SP, "folder">>,
      <<"it", "'", "s", SP, "\"", "Docs", "\"">>,
      <<"'", "'">>,
      <<"'", "Docs">>,
      <<"\"", "My", SP, "Doc", "'", SP, "'", "foo", "'">>,
      <<"open", SP, "sbc", "-", "images", "-", "main">>,
      <<"see", SP, "well", "-", "known", SP, "my", "-", "main", SP, "Docs", ".", "foo">>,
      <<"a", "-", "b", "-", "c", "-", "sbc">>,
      <<"well", "-", "known", SP, "Docs">>,
      <<"Open", SP, "the", SP, "Docs", SP, "folder", ",", SP, "now">>,
      <<"open", SP, "Docs">>,
      <<"open", SP, "it", SP, "click", SP, "on", SP, "the", SP, "Docs">>,
      <<"open", SP, "a", SP, "b", SP, "c", SP, "d", SP, "e", SP, "My", SP, SP, "Doc">>,
      <<"see", SP, "My", SP, "Doc", SP, "and", SP, "Docs">>,
      <<"Ok", SP, "then", SP, "Docs">>,
      <<"Ok">>,
      <<"the", SP, "folder">> }

\* the screenshots handed to verify_success: a plain screen before, and after
\* it a screen of which the first k pixels (of 20) have another colour
VerifyArgs ==
    LET Image(width, k, p, q) == [i \in 1..width |-> IF i <= k THEN p ELSE q]
    IN
    {[before |-> Image(20, 0, q, q), after |-> Image(20 * f, k * f, p, q), task_type |-> t] :
        q \in {<<0, 0, 0>>, <<60, 0, 0>>},
        p \in {<<30, 30, 30>>, <<31, 31, 31>>, <<0, 60, 0>>, <<255, 255, 255>>},
        k \in {0, 2, 3, 4, 20}, f \in {1, 2}, t \in {"open_folder", "click_button"}}

NoCall == [fn |-> "none"]

(***************************************************************************)
(* The specification.                                                      *)
(***************************************************************************)
Init ==
    /\ model \in ModelIds
    /\ messages = <<SystemMessage(model)>>
    /\ gpt4_messages = <<>>
    /\ onCopy = FALSE
    /\ pc = "idle"
    /\ turn = 0
    /\ depth = 0
    /\ result = NoResult
    /\ slept = FALSE
    /\ requests = <<>>
    /\ responses = <<>>
    /\ trace = <<>>
    /\ errors = <<>>
    /\ parsed = <<>>
    /\ firstMiss = 0
    /\ before = messages
    /\ screen = <<>>
    /\ call = NoCall

\* a step is taken only while the re-invocations stay within the bound
Step(s) == s.depth <= MaxDepth /\ Becomes(s)

GetNextAction ==
    /\ pc = "idle"
    /\ turn < MaxTurns
    /\ \E setup \in Setups, fsetup \in Setups : Step(get_next_action(Cur, setup, fsetup))

Gpt4oResponse ==
    /\ pc = "call_gpt_4o"
    /\ \E resp \in Responses(pc, model), setup \in Setups : Step(gpt_4o_response(Cur, resp, setup))

Claude37Response ==
    /\ pc = "call_claude_37"
    /\ \E resp \in Responses(pc, model) : Step(claude_37_response(Cur, resp))

WithOcrResponse ==
    /\ pc \in {"call_qwen_vl_with_ocr", "call_gpt_4o_with_ocr", "call_o1_with_ocr"}
    /\ \E resp \in Responses(pc, model), ocr \in OcrResults, fsetup \in Setups :
           Step(with_ocr_response(Cur, resp, ocr, fsetup))

Gpt4oLabeledResponse ==
    /\ pc = "call_gpt_4o_labeled"
    /\ \E resp \in Responses(pc, model), miss \in Misses, fsetup \in Setups :
           Step(gpt_4o_labeled_response(Cur, resp, miss, fsetup))

GeminiProVisionResponse ==
    /\ pc = "call_gemini_pro_vision"
    /\ \E resp \in Responses(pc, model), fsetup \in Setups :
           Step(gemini_pro_vision_response(Cur, resp, fsetup))

OllamaLlavaResponse ==
    /\ pc = "call_ollama_llava"
    /\ \E resp \in OllamaResponses, setup \in Setups :
           Step(ollama_llava_response(Cur, resp, setup))

Claude3Response ==
    /\ pc = "call_claude_3_with_ocr"
    /\ \E resp \in Responses(pc, model), ocr \in OcrResults, fsetup \in Setups :
           Step(claude_3_response(Cur, resp, ocr, fsetup))

Claude3RepairResponse ==
    /\ pc = "claude_3_repair"
    /\ \E resp \in Responses(pc, model), ocr \in OcrResults, fsetup \in Setups :
           Step(claude_3_repair_response(Cur, resp, ocr, fsetup))

Next ==
    \/ GetNextAction
    \/ Gpt4oResponse
    \/ Claude37Response
    \/ WithOcrResponse
    \/ Gpt4oLabeledResponse
    \/ GeminiProVisionResponse
    \/ OllamaLlavaResponse
    \/ Claude3Response
    \/ Claude3RepairResponse

Spec == Init /\ [][Next]_vars

(***************************************************************************)
(* The functions no backend calls, and clean_json, applied on their own to *)
(* every argument of a bounded set.                                        *)
(***************************************************************************)
session == <<model, messages, gpt4_messages, onCopy, pc, turn, depth, result, slept,
             requests, responses, trace, errors, parsed, firstMiss, before, screen>>

CleanJson ==
    /\ \E content \in CleanJsonArgs :
           call' = [fn |-> "clean_json", content |-> content, ret |-> clean_json(content)]
    /\ UNCHANGED session

FindUiElement ==
    /\ \E in \in LocatorArgs :
           call' = [fn |-> "find_ui_element_by_text_and_vision", in |-> in,
                    results |-> pool_results(in),
                    ret |-> find_ui_element_by_text_and_vision(in)]
    /\ UNCHANGED session

ExtractTarget ==
    /\ \E text \in ExtractorTexts :
           call' = [fn |-> "extract_target_from_text", text |-> text,
                    ret |-> extract_target_from_text(text)]
    /\ UNCHANGED session

VerifySuccess ==
    /\ \E in \in VerifyArgs :
           call' = [fn |-> "verify_success", in |-> in,
                    ret |-> verify_success(in.before, in.after, in.task_type)]
    /\ UNCHANGED session

FunctionsInit == Init /\ model = "gpt-4"

FunctionsNext == CleanJson \/ FindUiElement \/ ExtractTarget \/ VerifySuccess

Functions == FunctionsInit /\ [][FunctionsNext]_vars

(***************************************************************************)
(* Properties.                                                             *)
(***************************************************************************)
\* the turn is over: get_next_action returned or raised
Returned == pc = "idle" /\ turn > 0

Selected == Route(model)

NotClick(op) == ~IsClick(op)
Clicks(ops)    == SelectSeq(ops, IsClick)
NonClicks(ops) == SelectSeq(ops, NotClick)

\* the operation without the double-click mark
Unmarked(op) == [op EXCEPT !.double_click = FALSE, !.has = @ \ {"double_click"}]

HasFraction(op) ==
    {"x", "y"} \subseteq op.has /\ op.x \in 0..100 /\ op.y \in 0..100

\* the backends whose handler calls the plain backend call_gpt_4o
FallingBack == {"call_qwen_vl_with_ocr", "call_gpt_4o_with_ocr", "call_o1_with_ocr",
                "call_gpt_4o_labeled", "call_gemini_pro_vision", "call_claude_3_with_ocr"}

OcrBackends == {"call_qwen_vl_with_ocr", "call_gpt_4o_with_ocr", "call_o1_with_ocr",
                "call_claude_3_with_ocr"}

\* a failure of the turn other than a text that does not parse
Failure == \E e \in Range(errors) : e # "JSONDecodeError"

RepairRequests == {i \in 1..Len(requests) : requests[i].repair}

\* C1: a turn makes a bounded number of model requests under persistent
\* failure: the first request, at most one repair request and the request of
\* one fallback hop, and a backend retries itself at most once.
C1_TurnIsBounded == Len(requests) <= 3 /\ depth <= 1

\* C2: a turn in which a model output did not parse returns a list of at least
\* one operation (the operations of a repaired JSON, or one safe fallback
\* operation): never an empty list, never an exception.
C2_MalformedGivesOperations ==
    (/\ Returned
     /\ "bad" \in Range(responses)
     /\ \A e \in Range(errors) : e = "JSONDecodeError")
        => (result.kind = "list" /\ result.ops # <<>>)

\* C3: an identifier that is not recognised makes get_next_action raise
\* ModelNotRecognizedException at once: no backend is entered, no request is
\* made and the history is the one the session began with.
C3_UnknownModelRaises ==
    (model \notin Recognised /\ turn > 0)
        => /\ pc = "idle"
           /\ result = Raised("ModelNotRecognizedException")
           /\ trace = <<"get_next_action">>
           /\ requests = <<>>
           /\ messages = <<SystemMessage(model)>>

C3_Witness == model \notin Recognised /\ turn > 0 /\ result.kind = "raise"

\* C4: when the OCR resolver fails for a click of the batch, the turn still
\* returns every other operation of the batch in order, and every click it
\* returns carries the coordinates a resolver produced.
C4_OnlyTheClickIsDropped ==
    (/\ Returned
     /\ Selected \in OcrBackends
     /\ firstMiss # 0
     /\ \A i \in 1..Len(parsed) : IsClick(parsed[i]) => "text" \in parsed[i].has
     /\ Len(parsed) > 1
     /\ errors = <<"ResolveError">>)
        => /\ result.kind = "list"
           /\ NonClicks(result.ops) = NonClicks(parsed)
           /\ \A i \in 1..Len(result.ops) :
                  IsClick(result.ops[i])
                      => \E e \in Range(screen) :
                             result.ops[i].x = e.x /\ result.ops[i].y = e.y

\* C5: every click operation a turn returns carries x and y, each a fraction
\* in [0,1].
C5_ClicksCarryFractions ==
    (Returned /\ result.kind \in {"list", "dict"})
        => \A i \in 1..Len(result.ops) :
               IsClick(result.ops[i]) => HasFraction(result.ops[i])

\* C6: when call_claude_37 detects a double-click in a batch that has a click,
\* the batch it returns has exactly one click: the first click of the batch.
C6_FirstClickIsKept ==
    (/\ Returned
     /\ Selected = "call_claude_37"
     /\ responses = <<"list">>
     /\ errors = <<>>
     /\ need_double_click(parsed)
     /\ Clicks(parsed) # <<>>)
        => /\ result.kind = "list"
           /\ Len(Clicks(result.ops)) = 1
           /\ Unmarked(Clicks(result.ops)[1]) = Unmarked(Clicks(parsed)[1])

\* C7: for a batch of two clicks whose first thought says double click,
\* call_claude_37 returns exactly one click, marked double_click.
C7_TwoClicksCollapse ==
    (/\ Returned
     /\ Selected = "call_claude_37"
     /\ responses = <<"list">>
     /\ Len(parsed) = 2
     /\ IsClick(parsed[1]) /\ IsClick(parsed[2])
     /\ TextContains(parsed[1].thought, "double")
     /\ TextContains(parsed[1].thought, "click"))
        => /\ result.kind = "list"
           /\ Len(Clicks(result.ops)) = 1
           /\ Clicks(result.ops)[1].double_click

\* C8, as stated: a failure in the turn of call_claude_37,
\* call_qwen_vl_with_ocr or call_gemini_pro_vision makes the turn return the
\* single safe operation, and no fallback backend is entered in that turn.
C8_SafeOperationNoFallback ==
    (/\ Returned
     /\ Selected \in {"call_claude_37", "call_qwen_vl_with_ocr", "call_gemini_pro_vision"}
     /\ Failure
     /\ Len(errors) = 1)
        => /\ result = ListOf(<<AfterErrorWait>>)
           /\ trace = <<"get_next_action", Selected>>

\* C8, amended: a failure in the turn of call_claude_37 makes the turn return
\* the single safe operation (wait, duration 1) and no other backend is
\* entered; a failure in the turn of a backend with a fallback enters
\* call_gpt_4o inside the same turn.
C8_SafeOperationOrFallbackInTurn ==
    (Returned /\ Failure)
        => /\ Selected = "call_claude_37"
               => /\ result = ListOf(<<AfterErrorWait>>)
                  /\ trace = <<"get_next_action", "call_claude_37">>
           /\ Selected \in FallingBack => "call_gpt_4o" \in Range(trace)

C8_Witness ==
    /\ Returned
    /\ Selected = "call_claude_37"
    /\ "RequestError" \in Range(errors)
    /\ result = ListOf(<<AfterErrorWait>>)

\* C9: in call_claude_3_with_ocr, when the first response and the response to
\* the corrective request both fail to parse, the turn makes no further
\* request and returns one wait operation.
C9_SecondFailureGivesWait ==
    (/\ Selected = "call_claude_3_with_ocr"
     /\ Len(responses) >= 2
     /\ responses[1] = "bad"
     /\ responses[2] = "bad")
        => /\ Len(requests) = 2
           /\ pc = "idle"
           /\ result.kind = "list"
           /\ Len(result.ops) = 1
           /\ result.ops[1].operation = "wait"

\* C10: a turn issues at most one corrective request, and only as its second
\* request, after the first response failed to parse.
C10_OneRepairAfterParseFailure ==
    /\ Cardinality(RepairRequests) <= 1
    /\ \A i \in RepairRequests :
           i = 2 /\ Len(responses) >= 1 /\ responses[1] = "bad"

C10_Witness == Returned /\ RepairRequests # {} /\ result.kind = "list"

\* the identifier whose system prompt belongs to the function a request is
\* waiting on: the default backend reached through a fallback is prompted as
\* "gpt-4o" (gpt_4_fallback), a selected backend as the session's identifier
PromptOwner ==
    IF pc = "call_gpt_4o" /\ Selected # "call_gpt_4o" THEN "gpt-4o" ELSE model

\* C11: whenever a model request is waiting for its response, the first
\* message of the list the querying backend works on is the system message
\* of that backend: of the selected one, or of the default backend when it
\* was reached through a fallback.
C11_SystemPromptOfQueriedBackend ==
    pc # "idle" => Work(Cur)[1] = SystemMessage(PromptOwner)

\* the messages the turn added to the shared history
Added == Slice(messages, Len(before) + 1, Len(messages))

\* C12: a turn that returns operations has added to the shared history
\* exactly one user message followed by exactly one assistant message
\* (checked on the turns in which nothing failed).
C12_OneUserOneAssistant ==
    (Returned /\ result.kind \in {"list", "dict"} /\ errors = <<>>)
        => /\ Slice(messages, 1, Len(before)) = before
           /\ Len(Added) = 2
           /\ Added[1].role = "user"
           /\ Added[2].role = "assistant"

SimpleBackends == {"call_gpt_4o", "call_ollama_llava"}

\* C13: when the first request of call_gpt_4o or call_ollama_llava raises,
\* the backend catches the failure and is entered once more, and no
\* exception reaches the caller of get_next_action.
C13_FailedRequestIsRetried ==
    (Selected \in SimpleBackends /\ responses # <<>> /\ responses[1] = "raise")
        => /\ result.kind # "raise"
           /\ Len(trace) >= 3
           /\ trace[3] = Selected

\* C14: a click without explicit coordinates is resolved (by its text, else
\* by its label, else by the target its thought names) and the coordinate is
\* written into its x and y: so in a turn of call_claude_37 in which nothing
\* failed, every click of the parsed batch that is returned carries x and y.
C14_ClickWithoutCoordinatesIsResolved ==
    (Returned /\ Selected = "call_claude_37" /\ errors = <<>> /\ result.kind = "list")
        => \A i \in 1..Len(result.ops) :
               IsClick(result.ops[i]) => {"x", "y"} \subseteq result.ops[i].has

\* the turn recorded an assistant message, and the text of it: for
\* call_claude_37 the response as the model wrote it (line 631)
Answered == Len(messages) > Len(before) /\ Last(messages).role = "assistant"
Answer == Last(messages).content

\* the response is prose: it does not begin with a bracket and holds no
\* bracketed block
IsProse(text) ==
    /\ ~StartsWith(Strip(text), <<"[">>)
    /\ ~StartsWith(Strip(text), <<"{">>)
    /\ JsonBlockSearch(text) = <<>>

C16_AbsentLabelFallsBack ==
    (Returned /\ Selected = "call_gpt_4o_labeled" /\ firstMiss # 0)
        => /\ "call_gpt_4o" \in Range(trace)
           /\ \A i \in 1..Len(result.ops) :
                  IsClick(result.ops[i])
                      => ~(/\ {"x", "y"} \subseteq result.ops[i].has
                           /\ result.ops[i].x = LabelCoordinates.x
                           /\ result.ops[i].y = LabelCoordinates.y)

\* the elements of the OCR result whose text is exactly the text of the click
ExactElements(op) == {e \in Range(screen) : e.text = TextChars(op.text)}

\* C15: in a turn of an OCR-augmented backend in which nothing failed, a
\* click whose text is exactly the text of an element of the OCR result is
\* returned with the centre of such an element.
C15_ExactMatchIsClicked ==
    (/\ Returned
     /\ Selected \in OcrBackends
     /\ errors = <<>>
     /\ result.kind = "list"
     /\ Len(result.ops) = Len(parsed))
        => \A i \in 1..Len(parsed) :
               (/\ IsClick(parsed[i])
                /\ "text" \in parsed[i].has
                /\ ExactElements(parsed[i]) # {})
                   => \E e \in ExactElements(parsed[i]) :
                          result.ops[i].x = e.x /\ result.ops[i].y = e.y

\* the language tags a fence is opened with
LanguageTags == {"json", "python"}

\* the text is wrapped in a code fence: it opens with the fence marker and
\* closes with it
Wrapped(content) ==
    Len(content) >= 2 /\ StartsWith(content, <<Fence>>) /\ EndsWith(content, <<Fence>>)

\* C18: for a text wrapped in a code fence, with or without a language tag
\* after the opening marker, the result of clean_json contains neither a
\* fence marker nor the language tag.
C18_FenceAndTagAreStripped ==
    (call.fn = "clean_json" /\ Wrapped(call.content))
        => \A i \in 1..Len(call.ret) : call.ret[i] \notin {Fence} \cup LanguageTags

\* C19: find_ui_element_by_text_and_vision returns None exactly when the pool
\* of the candidates of all strategies is empty.
C19_NoneIffNoCandidate ==
    call.fn = "find_ui_element_by_text_and_vision"
        => (call.ret.kind = "None" <=> call.results = <<>>)

C19_Witness ==
    /\ call.fn = "find_ui_element_by_text_and_vision"
    /\ call.in.elements # <<>>
    /\ call.in.contours # <<>>
    /\ call.results = <<>>
    /\ call.ret.kind = "None"

\* the candidates of the pool no other candidate exceeds in confidence
Top(results) ==
    {k \in 1..Len(results) :
        \A m \in 1..Len(results) : results[k].confidence >= results[m].confidence}

\* C20: with a pool that is not empty, find_ui_element_by_text_and_vision
\* returns the centre of a candidate of the highest confidence of the pool,
\* divided by the width and the height of the screenshot.
C20_BestCandidateAsFraction ==
    (call.fn = "find_ui_element_by_text_and_vision" /\ call.results # <<>>)
        => \E k \in Top(call.results) :
               /\ call.ret.kind = "point"
               /\ call.ret.x * call.in.size.w = call.results[k].center.x * 100
               /\ call.ret.y * call.in.size.h = call.results[k].center.y * 100

C20_Witness ==
    /\ call.fn = "find_ui_element_by_text_and_vision"
    /\ {call.results[k].type : k \in 1..Len(call.results)} = {"template", "text", "icon", "shape"}
    /\ Top(call.results) # 1..Len(call.results)
    /\ 1 \notin Top(call.results)
    /\ call.ret.kind = "point"

\* the substrings of a text that stand between two quotation marks of the
\* same kind, with no quotation mark inside
QuotedSubstrings(text) ==
    {<<i, j>> \in (1..Len(text)) \X (1..Len(text)) :
        /\ i + 1 < j /\ text[i] \in QuoteMarks /\ text[j] = text[i]
        /\ \A k \in (i + 1)..(j - 1) : text[k] \notin QuoteMarks}

FirstQuotedSubstring(text) ==
    LET q == CHOOSE p \in QuotedSubstrings(text) :
                 \A r \in QuotedSubstrings(text) : p[1] <= r[1]
    IN  Slice(text, q[1] + 1, q[2] - 1)

\* C21: extract_target_from_text applies its rules in a fixed order, the
\* first rule that matches deciding the result; in particular a text that
\* contains a quoted substring yields the first quoted substring.
C21_QuotedSubstringWins ==
    (call.fn = "extract_target_from_text" /\ QuotedSubstrings(call.text) # {})
        => call.ret = FirstQuotedSubstring(call.text)

\* the rules below the quoted one, each applied when no rule before it matched
C21_LowerRulesInOrder ==
    (call.fn = "extract_target_from_text" /\ first_quoted(call.text, 1) = <<>>)
        => LET text == call.text
               files == SelectSeq(file_matches(text, 1), looks_like_file)
               phrase == after_phrase(text, click_phrases)
               caps == SelectSeq(cap_matches(text, 1), LAMBDA m : CharLen(m) > 3)
           IN  /\ files # <<>> => call.ret = files[1]
               /\ (files = <<>> /\ phrase # <<>>) => call.ret = phrase
               /\ (files = <<>> /\ phrase = <<>> /\ caps # <<>>) => call.ret = caps[1]
               /\ (files = <<>> /\ phrase = <<>> /\ caps = <<>>) => call.ret = text

\* C22: no step of a backend removes, reorders or modifies a message of the
\* shared history at an index of 1 or more (a position after the first of the
\* sequence): the history changes by appends and by the overwrite of index 0.
C22_HistoryIsAppendOnly ==
    [][/\ Len(messages') >= Len(messages)
       /\ \A i \in 2..Len(messages) : messages'[i] = messages[i]]_vars

\* C22 as amended: the history changes by appends, by the overwrite of index
\* 0, and by call_ollama_llava clearing the image reference of the last
\* message, the vision message it appended before the request.
C22_HistoryChangesByAppend ==
    [][/\ Len(messages') >= Len(messages)
       /\ \A i \in 2..Len(messages) :
              \/ messages'[i] = messages[i]
              \/ /\ model = "llava" /\ i = Len(messages)
                 /\ messages[i].role = "user"
                 /\ messages'[i] = [messages[i] EXCEPT !.images = "None"]]_vars

\* the second turn of llava has answered: the vision message of the turn lost
\* its image reference, after the messages of the first turn
C22_Witness ==
    /\ model = "llava" /\ turn = 2 /\ Returned
    /\ Len(before) >= 3 /\ Len(messages) > Len(before)
    /\ messages[Len(before) + 1].images = "None"

\* the pixels of the compared images whose grey-level difference exceeds 30
Differing(in) ==
    LET n == Len(in.before)
        after == IF Len(in.after) = n THEN in.after ELSE resize(in.after, n)
    IN  {i \in 1..n : gray_diff(in.before[i], after[i]) >= 31}

\* C23: verify_success returns True exactly when task_type is open_folder and
\* the pixels whose grey-level difference exceeds 30 are strictly more than
\* 15% of all pixels; for every other task_type it returns False.
C23_TrueIffOverFifteenPercent ==
    call.fn = "verify_success"
        => /\ call.ret \in BOOLEAN
           /\ call.ret <=> /\ call.in.task_type = "open_folder"
                            /\ 20 * Cardinality(Differing(call.in)) > 3 * Len(call.in.before)

\* exactly 15% of the pixels differ (3 of 20) and the result is False
C23_Witness ==
    /\ call.fn = "verify_success" /\ call.in.task_type = "open_folder"
    /\ Cardinality(Differing(call.in)) = 3 /\ Len(call.in.before) = 20
    /\ call.ret = FALSE

\* C24: when call_gpt_4o_labeled itself returns (every label of the batch is in
\* the detection map and nothing failed), it returns one operation for each
\* operation of the parsed batch, in the same order, the clicks with x and y
\* and the others unchanged; for an empty batch, the empty list.
C24_OneOutputPerOperation ==
    (/\ Returned
     /\ Selected = "call_gpt_4o_labeled"
     /\ responses = <<"list">>
     /\ errors = <<>>
     /\ firstMiss = 0)
        => /\ result.kind = "list"
           /\ Len(result.ops) = Len(parsed)
           /\ \A i \in 1..Len(parsed) :
                  IF IsClick(parsed[i])
                      THEN /\ {"x", "y"} \subseteq result.ops[i].has
                           /\ [result.ops[i] EXCEPT !.x = parsed[i].x, !.y = parsed[i].y,
                                                    !.has = parsed[i].has] = parsed[i]
                  ELSE result.ops[i] = parsed[i]

\* C25: for every recognised model identifier, what get_next_action returns
\* is a pair whose first component is a list of operations, never a value of
\* another shape.
C25_ReturnsListOfOperations ==
    (Returned /\ model \in Recognised /\ result.kind # "raise")
        => result.kind = "list"

\* C26: after any sequence of turns the messages of the shared history after
\* index 0 alternate user, assistant, user, assistant, beginning with a user
\* message: no two consecutive messages have the same role.
C26_RolesAlternate ==
    Returned
        => /\ Len(messages) > 1 => messages[2].role = "user"
           /\ \A i \in 2..(Len(messages) - 1) :
                  /\ messages[i].role \in {"user", "assistant"}
                  /\ messages[i].role # messages[i + 1].role

\* C27: in the backends that resolve clicks by OCR or by detection labels, the
\* assistant message of a response is appended only after every click of the
\* batch was resolved: when the resolution of a click has failed and the
\* fallback backend is called, the history holds no assistant message for the
\* failed response.
C27_NoAssistantBeforeResolution ==
    (/\ Selected \in OcrBackends \cup {"call_gpt_4o_labeled"}
     /\ firstMiss # 0
     /\ pc = "call_gpt_4o")
        => \A i \in (Len(before) + 1)..Len(messages) : messages[i].role # "assistant"

\* C28: a backend call that returns normally returns a list of operations
\* that is not empty: never None and never the empty list, also when the
\* response is the JSON array [] and when Ollama cannot be reached.
C28_NeverNoneNeverEmpty ==
    (/\ Returned
     /\ Selected \notin {"coming soon", "ModelNotRecognizedException"}
     /\ result.kind # "raise")
        => /\ result.kind # "None"
           /\ result.kind = "list" => result.ops # <<>>

\* C29: the request of call_claude_37 holds every message of the history at
\* an index of 1 or more, in the order of the history, and after them the
\* vision message of the turn: no earlier message is left out.
C29_RequestHoldsWholeHistory ==
    pc = "call_claude_37"
        => LET sent == Last(requests).messages
           IN  /\ Slice(sent, 1, Len(sent) - 1) = Tail(messages)
               /\ Last(sent).role = "user"
               /\ "image" \in Range(Last(sent).content)

\* C30: after a turn of call_claude_3_with_ocr that completes through the
\* fallback, the shared history holds the assistant message of the operations
\* returned, and its index 0 the system prompt of the backend that produced
\* them.
C30_FallbackAnswerIsInSharedHistory ==
    (/\ Returned
     /\ Selected = "call_claude_3_with_ocr"
     /\ "gpt_4_fallback" \in Range(trace)
     /\ result.kind \in {"list", "dict"})
        => /\ Answered
           /\ Loaded(json_loads(Answer)) = result
           /\ messages[1] = SystemMessage("gpt-4o")

\* the well-formed JSON arrays that stand in a text after prose without a
\* bracket, as the places of their first and last character
ArraysInProse(text) ==
    {p \in (2..Len(text)) \X (2..Len(text)) :
        /\ p[1] <= p[2] /\ text[p[1]] = "["
        /\ \A k \in 1..(p[1] - 1) : text[k] \notin {"[", "]", "{", "}"}
        /\ json_loads(Slice(text, p[1], p[2])).ok
        /\ json_loads(Slice(text, p[1], p[2])).kind = "list"}

\* C31: in call_claude_37, when the response is prose around one well-formed
\* JSON array of operations, the parsed batch is that array, whatever the
\* prose holds, brackets after the array included.
C31_ArrayInProseIsParsed ==
    (Returned /\ Selected = "call_claude_37" /\ Answered /\ responses # <<>>)
        => \A p \in ArraysInProse(Answer) :
               parsed = json_loads(Slice(Answer, p[1], p[2])).ops

\* C32: when the target description holds stop words only, so that the clean
\* target is the empty string, find_ui_element_by_text_and_vision returns
\* None however many texts the OCR pass recognises: a text is a candidate only
\* for a target word of more than 2 characters that occurs in it, or for a
\* clean target that is not empty.
C32_StopWordsOnlyFindsNothing ==
    (/\ call.fn = "find_ui_element_by_text_and_vision"
     /\ call.in.target # <<>>
     /\ target_words(call.in.target) = <<>>)
        => call.ret.kind = "None"

\* C33: call_claude_37 returns every operation of the parsed batch that is not
\* a click, unchanged and in the order of the batch, with or without the
\* collapsing of a double click.
C33_NonClicksAreKept ==
    (/\ Returned
     /\ Selected = "call_claude_37"
     /\ responses \in {<<"list">>, <<"bad">>}
     /\ NonClicks(parsed) # <<>>)
        => /\ result.kind = "list"
           /\ NonClicks(result.ops) = NonClicks(parsed)

\* C34: whenever call_ollama_llava issues a chat request, on a retry as well,
\* no message of the history it sends other than the last one carries an
\* image reference.
C34_OnlyLastMessageHasImage ==
    \A i \in DOMAIN requests :
        requests[i].fn = "call_ollama_llava"
            => \A k \in 1..(Len(requests[i].messages) - 1) :
                   requests[i].messages[k].images # "file"

\* the candidates of a pool that were inferred from a recognised text: k is
\* the place of the icon candidate, which follows the candidate of its text,
\* and i the place of the text among the recognised elements
IconsOfTexts(results, elements) ==
    {<<k, i>> \in (2..Len(results)) \X (1..Len(elements)) :
        /\ results[k].type = "icon"
        /\ results[k - 1].type = "text"
        /\ results[k - 1].center.x = (elements[i].left + elements[i].right) \div 2
        /\ results[k - 1].center.y = (elements[i].top + elements[i].bottom) \div 2}

\* C35: every icon candidate inferred from a recognised text that looks like a
\* caption lies above that text: the y coordinate of its centre is strictly
\* smaller than the top edge of the box of the text, wherever the text is on
\* the screen.
C35_IconIsAboveItsText ==
    (call.fn = "find_ui_element_by_text_and_vision" /\ call.in.target # <<>>)
        => \A p \in IconsOfTexts(call.results, call.in.elements) :
               call.results[p[1]].center.y < call.in.elements[p[2]].top

\* C36: the model a pipeline queries is the one its identifier names: the
\* pipeline the dispatcher reaches for "gpt-4-with-ocr" requests gpt-4o, and
\* the one it reaches for "o1-with-ocr" requests o1.
C36_RequestsTheRoutedModel ==
    \A i \in DOMAIN requests :
        /\ requests[i].fn = Route("gpt-4-with-ocr") => requests[i].model = "gpt-4o"
        /\ requests[i].fn = Route("o1-with-ocr") => requests[i].model = "o1"

\* C37: every model request of a turn, the corrective request and the
\* requests of a retry or of a fallback included, is preceded by the fixed
\* delay: time.sleep(1) ran between it and the request before it.
C37_EveryRequestIsDelayed ==
    \A i \in DOMAIN requests : requests[i].delayed

====
